---- MODULE Spec2Model ----
(***************************************************************************)
(* Iterative-deepening search engines of element_search.py,                *)
(* file_system_search.py and rights_search.py.                             *)
(*                                                                         *)
(* The three files each hold their own copy of Node, expand,               *)
(* depth_limited_search and iterative_deepening_search.  The variable      *)
(* `variant` names the file whose code is running.  One step of the model  *)
(* is one iteration of a loop of the code (the while loop of               *)
(* depth_limited_search, the for loop of iterative_deepening_search).      *)
(*                                                                         *)
(* Search nodes are Python objects compared by identity: the model keeps   *)
(* them in `heap`, a sequence of Node records, and a reference is an index *)
(* into it.  The module-level sentinels failure and cutoff are the first   *)
(* two objects.  Nodes of an earlier pass are unreachable once the pass    *)
(* has returned cutoff; the heap drops them when the next pass starts.     *)
(***************************************************************************)
EXTENDS Integers, Sequences, FiniteSets, TLC

(* ------------------------------ bounds --------------------------------- *)
\* Largest number of nodes of the exhaustively enumerated small trees.
MaxNodes == 4
\* Largest number of files directly under the depth-2 directory of a fan tree.
MaxFan == 10
\* Largest number of files under the depth-3 directory of a fan tree.
MaxDeep == 2
\* Largest start_depth handed to the enumeration driver.
MaxStartDepth == 4
\* Largest limit handed to depth_limited_search when it is called directly.
MaxDirectLimit == 2

(* ------------------------- program constants --------------------------- *)
\* rights_search.py: literal 3 of `depth >= 3`, literal 10 of `len(found_files) >= 10`.
MinDepth == 3
K == 10
\* rights_search.py: st_mode of a regular file with rw-rw-rw-.
GoalMode == 33206
\* First limit of the single-goal drivers: range(1, sys.maxsize).
FirstLimit == 1

\* References: None, and the two module-level sentinel objects.
None == 0
failure == 1
cutoff == 2
\* math.inf
Inf == "inf"
\* Problem.initial: the root of the tree.
Initial == 1

(* ------------------------------ trees ---------------------------------- *)
RECURSIVE SortedSeq(_)
SortedSeq(S) ==
    IF S = {} THEN <<>>
    ELSE LET m == CHOOSE x \in S : \A y \in S : x <= y
         IN  <<m>> \o SortedSeq(S \ {m})

\* Parent vectors of the rooted trees on nodes 1..N (node 1 is the root).
ParVecs(N) ==
    {p \in [1..N -> 0..(N - 1)] :
        p[1] = 0 /\ \A i \in 2..N : p[i] \in 1..(i - 1)}

Kids(p, n) == SortedSeq({i \in DOMAIN p : p[i] = n})

NoChild(N) == [n \in 1..N |-> 0]
NoFiles(N) == [n \in 1..N |-> FALSE]

\* BinaryTreeNode objects: left and right are node ids, 0 is None.  A node
\* with a single child holds it on the side `side`.
BinaryTreeNode(p, side, v) ==
    LET N == Len(p) IN
    [n        |-> N,
     left     |-> [x \in 1..N |->
                     LET k == Kids(p, x) IN
                     IF Len(k) = 2 \/ (Len(k) = 1 /\ side = "left") THEN k[1] ELSE 0],
     right    |-> [x \in 1..N |->
                     LET k == Kids(p, x) IN
                     IF Len(k) = 2 THEN k[2]
                     ELSE IF Len(k) = 1 /\ side = "right" THEN k[1] ELSE 0],
     children |-> [x \in 1..N |-> Kids(p, x)],
     val      |-> v,
     isfile   |-> NoFiles(N)]

\* TreeNode objects: children is the list add_child appended to.
TreeNode(p, v) ==
    LET N == Len(p) IN
    [n        |-> N,
     left     |-> NoChild(N),
     right    |-> NoChild(N),
     children |-> [x \in 1..N |-> Kids(p, x)],
     val      |-> v,
     isfile   |-> NoFiles(N)]

\* A directory tree on disk: val is st_mode, the leaves in `files` are
\* regular files, every other node is a directory (st_mode 16895, rwxrwxrwx).
\* A regular file that is no goal has st_mode 33188 (rw-r--r--).
FSNode(p, files, v) ==
    LET N == Len(p) IN
    [n        |-> N,
     left     |-> NoChild(N),
     right    |-> NoChild(N),
     children |-> [x \in 1..N |-> Kids(p, x)],
     val      |-> [x \in 1..N |-> IF x \in files THEN v[x] ELSE 16895],
     isfile   |-> [x \in 1..N |-> x \in files]]

Leaves(p) == {x \in DOMAIN p : \A i \in DOMAIN p : p[i] # x}

\* The tree main() of element_search.py builds; ids 1..9 carry the values
\* 1, 2, 3, 6, 7, 8, 9, 5, 4.
UserTree ==
    [n        |-> 9,
     left     |-> <<2, 4, 7, 6, 0, 0, 0, 0, 0>>,
     right    |-> <<3, 5, 8, 0, 0, 0, 9, 0, 0>>,
     children |-> << <<2, 3>>, <<4, 5>>, <<7, 8>>, <<6>>, <<>>, <<>>, <<9>>, <<>>, <<>> >>,
     val      |-> <<1, 2, 3, 6, 7, 8, 9, 5, 4>>,
     isfile   |-> NoFiles(9)]

\* The tree main() of file_system_search.py builds.
FileTree ==
    [n        |-> 8,
     left     |-> NoChild(8),
     right    |-> NoChild(8),
     children |-> << <<2, 3>>, <<4, 5>>, <<7>>, <<>>, <<6, 8>>, <<>>, <<>>, <<>> >>,
     val      |-> <<"root", "subdir_1", "subdir_2", "file_a", "subdir_3",
                    "file_b", "file_c", "file_d">>,
     isfile   |-> NoFiles(8)]

\* Fan trees: root 1 holds directory 2 and a file of the goal mode at depth
\* 1; 2 holds directory 3; 3 holds `a` files at depth 3, the first g of them
\* of the goal mode, and, when b > 0, a directory holding b files of the
\* goal mode at depth 4.
FanPar(a, b) ==
    [i \in 1..(4 + a + (IF b > 0 THEN b + 1 ELSE 0)) |->
        IF i = 1 THEN 0
        ELSE IF i = 2 THEN 1
        ELSE IF i = 3 THEN 2
        ELSE IF i <= 3 + a THEN 3
        ELSE IF i = 4 + a THEN 1
        ELSE IF i = 5 + a THEN 3
        ELSE 5 + a]

FanTree(a, b, g) ==
    LET p == FanPar(a, b)
        files == (4..(4 + a)) \cup ((6 + a)..(5 + a + b))
    IN  FSNode(p, files,
               [x \in DOMAIN p |->
                   IF x > 3 + g /\ x <= 3 + a THEN 33188 ELSE GoalMode])

ElementValues == {1, 2}
FileValues == {"file_a", "file_b"}
Modes == {GoalMode, 33188}

ElementTrees ==
    {UserTree} \cup
    UNION {UNION {{BinaryTreeNode(p, side, v) :
                      v \in [1..N -> ElementValues], side \in {"left", "right"}} :
                  p \in {q \in ParVecs(N) : \A x \in 1..N : Len(Kids(q, x)) <= 2}} :
           N \in 1..MaxNodes}

FileTrees ==
    {FileTree} \cup
    UNION {UNION {{TreeNode(p, v) : v \in [1..N -> FileValues]} : p \in ParVecs(N)} :
           N \in 1..MaxNodes}

RightsTrees ==
    UNION {UNION {{FSNode(p, Leaves(p), v) : v \in [1..N -> Modes]} : p \in ParVecs(N)} :
           N \in 1..MaxNodes}
    \cup
    UNION {UNION {{FanTree(a, b, g) : g \in 0..a} : b \in 0..MaxDeep} : a \in 0..MaxFan}

(* ------------------------------ state ---------------------------------- *)
VARIABLES
    variant,        \* "element", "file" or "rights": the file whose code runs
    entry,          \* "ids": the driver was called; "dls": depth_limited_search was
    tree,           \* the state space the Problem walks
    goal,           \* Problem.goal
    start_depth,    \* first limit of the driver
    limit,          \* limit of the current pass
    heap,           \* the Node objects
    frontier,       \* LIFOQueue of references
    result,         \* local `result` of depth_limited_search
    ids_result,     \* value depth_limited_search returned to its caller
    solution_node,  \* value the called function returned
    found_files,    \* the accumulator of rights_search.py
    pc,             \* "ids", "dls", "ret", "done"
    popped,         \* history: the nodes the current pass has popped, in order
    harness,        \* "single": one call; "pair": the driver of element_search.py,
                    \* then the driver of file_system_search.py on the same tree
    first_kind      \* "pair": the kind of outcome of the first driver

vars == <<variant, entry, tree, goal, start_depth, limit, heap, frontier, result,
          ids_result, solution_node, found_files, pc, popped, harness, first_kind>>

(* --------------------------- Problem contract -------------------------- *)
\* Mutant of UserSearchProblem_actions: the right child is forgotten.
LeftOnly_actions(state) ==
    IF tree.left[state] # None THEN <<tree.left[state]>> ELSE <<>>

\* UserSearchProblem.actions: left, then right, when they exist.
UserSearchProblem_actions(state) ==
    (IF tree.left[state] # None THEN <<tree.left[state]>> ELSE <<>>)
    \o (IF tree.right[state] # None THEN <<tree.right[state]>> ELSE <<>>)

\* FileSearchProblem.actions: state.children.
FileSearchProblem_actions(state) == tree.children[state]

\* WindowsFileSearchProblem.actions: the listing of a directory, [] for a file.
WindowsFileSearchProblem_actions(state) ==
    IF ~tree.isfile[state] THEN tree.children[state] ELSE <<>>

actions(state) ==
    CASE variant = "element" -> UserSearchProblem_actions(state)
      [] variant = "file"    -> FileSearchProblem_actions(state)
      [] variant = "rights"  -> WindowsFileSearchProblem_actions(state)

\* result(state, action) of the three problems: the action is the next state.
Result(state, action) == action

\* Problem.is_goal: state.value == self.goal.
Problem_is_goal(state) == tree.val[state] = goal

\* WindowsFileSearchProblem.is_goal: a regular file whose st_mode is 33206.
WindowsFileSearchProblem_is_goal(state) ==
    IF tree.isfile[state] THEN tree.val[state] = GoalMode ELSE FALSE

is_goal(state) ==
    IF variant = "rights" THEN WindowsFileSearchProblem_is_goal(state)
    ELSE Problem_is_goal(state)

action_cost(s, a, s1) == 1

(* ------------------------------- Node ---------------------------------- *)
Node(state, parent, action, path_cost) ==
    [state |-> state, parent |-> parent, action |-> action, path_cost |-> path_cost]

FailureNode == Node("failure", None, None, Inf)
CutoffNode == Node("cutoff", None, None, Inf)

\* Node.__len__: the length of the parent chain.
RECURSIVE len(_)
len(node) ==
    IF heap[node].parent = None THEN 0 ELSE 1 + len(heap[node].parent)

\* Mutant of expand: the child is hung on the parent of the expanded node.
expand_on_grandparent(node) ==
    LET s == heap[node].state
        acts == actions(s)
    IN  [i \in 1..Len(acts) |->
            LET s_next == Result(s, acts[i])
            IN  Node(s_next, heap[node].parent, acts[i],
                     heap[node].path_cost + action_cost(s, acts[i], s_next))]

\* expand: one child Node per action, in the order actions returns them.
expand(node) ==
    LET s == heap[node].state
        acts == actions(s)
    IN  [i \in 1..Len(acts) |->
            LET s_next == Result(s, acts[i])
            IN  Node(s_next, node, acts[i],
                     heap[node].path_cost + action_cost(s, acts[i], s_next))]

\* Mutant of path_states: the node's own value is put first.
RECURSIVE path_states_reversed(_)
path_states_reversed(node) ==
    IF heap[node].parent = None THEN <<tree.val[heap[node].state]>>
    ELSE <<tree.val[heap[node].state]>> \o path_states_reversed(heap[node].parent)

\* path_states of file_system_search.py.
RECURSIVE path_states(_)
path_states(node) ==
    IF heap[node].parent = None THEN <<tree.val[heap[node].state]>>
    ELSE path_states(heap[node].parent) \o <<tree.val[heap[node].state]>>

(* ------------------------------- Init ---------------------------------- *)
InitCommon ==
    /\ heap = <<FailureNode, CutoffNode>>
    /\ frontier = <<>>
    /\ result = failure
    /\ ids_result = None
    /\ solution_node = None
    /\ found_files = <<>>
    /\ pc = "ids"
    /\ popped = <<>>
    /\ first_kind = "none"

\* The caller either runs the driver (from its first limit) or one
\* depth_limited_search pass with a limit of its choice.
InitEntry(first) ==
    \/ /\ entry = "ids"
       /\ start_depth \in first
       /\ limit = start_depth
    \/ /\ entry = "dls"
       /\ limit \in 0..MaxDirectLimit
       /\ start_depth = limit

InitElement ==
    /\ variant = "element"
    /\ tree \in ElementTrees
    /\ goal \in (IF tree = UserTree THEN {4, 99} ELSE ElementValues)
    /\ InitEntry({FirstLimit})

InitFile ==
    /\ variant = "file"
    /\ tree \in FileTrees
    /\ goal \in (IF tree = FileTree THEN {"file_d", "file_c", "file_x"} ELSE FileValues)
    /\ InitEntry({FirstLimit})

InitRights ==
    /\ variant = "rights"
    /\ tree \in RightsTrees
    /\ goal = None
    /\ InitEntry(0..MaxStartDepth)

\* Both single-goal drivers on one binary tree, one after the other.
InitPair ==
    /\ harness = "pair"
    /\ variant = "element"
    /\ tree \in ElementTrees
    /\ goal \in (IF tree = UserTree THEN {4, 99} ELSE ElementValues)
    /\ entry = "ids"
    /\ start_depth = FirstLimit
    /\ limit = start_depth

Init ==
    /\ InitCommon
    /\ \/ harness = "single" /\ (InitElement \/ InitFile \/ InitRights)
       \/ InitPair

(* --------------------- depth_limited_search ---------------------------- *)
Top == frontier[Len(frontier)]
Rest == SubSeq(frontier, 1, Len(frontier) - 1)

\* Mutant of Fresh: the children are pushed last action first.
FreshReversed(k) == [i \in 1..k |-> Len(heap) + k + 1 - i]

\* References of the k objects allocated next.
Fresh(k) == [i \in 1..k |-> Len(heap) + i]

\* frontier = LIFOQueue([Node(problem.initial)]); result = failure
CallDLS ==
    /\ pc = "ids"
    /\ heap' = <<FailureNode, CutoffNode, Node(Initial, None, None, 0)>>
    /\ frontier' = <<3>>
    /\ result' = failure
    /\ popped' = <<>>
    /\ pc' = "dls"
    /\ UNCHANGED <<variant, entry, harness, first_kind, tree, goal, start_depth, limit, ids_result,
                   solution_node, found_files>>

\* The children one loop iteration of element_search.py pushes.
ElementPushed(node) == expand(node)

\* Mutant of GuardedPushed: expansion stops one level above the limit.
PushedShallow(node) == IF len(node) + 1 >= limit THEN <<>> ELSE expand(node)

\* Mutant of GuardedPushed: the depth check does not guard the expansion.
UnguardedPushed(node) == expand(node)

\* The children one loop iteration of file_system_search.py and of
\* rights_search.py pushes: none when the depth check fires.
GuardedPushed(node) == IF len(node) >= limit THEN <<>> ELSE expand(node)

\* Mutant of Marked: the depth is compared with > instead of >=.
MarkedStrict(node) == IF len(node) > limit THEN cutoff ELSE result

\* Mutant of Marked: the depth check never records a cutoff.
MarkedNever(node) == result

\* `if len(node) >= limit: result = cutoff`
Marked(node) == IF len(node) >= limit THEN cutoff ELSE result

\* One iteration of the while loop of element_search.py.
DLSElement ==
    /\ pc = "dls"
    /\ variant = "element"
    /\ frontier # <<>>
    /\ popped' = Append(popped, Top)
    /\ LET node == Top IN
       IF is_goal(heap[node].state)
       THEN /\ ids_result' = node
            /\ pc' = "ret"
            /\ frontier' = Rest
            /\ UNCHANGED <<heap, result>>
       ELSE LET kids == ElementPushed(node) IN
            /\ result' = Marked(node)
            /\ heap' = heap \o kids
            /\ frontier' = Rest \o Fresh(Len(kids))
            /\ UNCHANGED <<ids_result, pc>>
    /\ UNCHANGED <<variant, entry, harness, first_kind, tree, goal, start_depth, limit, solution_node,
                   found_files>>

\* One iteration of the while loop of file_system_search.py.
DLSFile ==
    /\ pc = "dls"
    /\ variant = "file"
    /\ frontier # <<>>
    /\ popped' = Append(popped, Top)
    /\ LET node == Top IN
       IF is_goal(heap[node].state)
       THEN /\ ids_result' = node
            /\ pc' = "ret"
            /\ frontier' = Rest
            /\ UNCHANGED <<heap, result>>
       ELSE LET kids == GuardedPushed(node) IN
            /\ result' = Marked(node)
            /\ heap' = heap \o kids
            /\ frontier' = Rest \o Fresh(Len(kids))
            /\ UNCHANGED <<ids_result, pc>>
    /\ UNCHANGED <<variant, entry, harness, first_kind, tree, goal, start_depth, limit, solution_node,
                   found_files>>

\* `if depth >= 3 and problem.is_goal(node.state)`
Records(node) == len(node) >= MinDepth /\ is_goal(heap[node].state)

\* found_files.append(node.state.path); a file system node and its path
\* name each other, the model keeps the node.
Appended(node) == Append(found_files, heap[node].state)

\* Mutant of Full: the threshold is compared with > instead of >=.
FullLate(files) == Len(files) > K

\* `if len(found_files) >= 10`
Full(files) == Len(files) >= K

\* One iteration of the while loop of rights_search.py.
DLSRights ==
    /\ pc = "dls"
    /\ variant = "rights"
    /\ frontier # <<>>
    /\ popped' = Append(popped, Top)
    /\ LET node == Top
           files == IF Records(node) THEN Appended(node) ELSE found_files
       IN
       /\ found_files' = files
       /\ IF Records(node) /\ Full(files)
          THEN /\ ids_result' = node
               /\ pc' = "ret"
               /\ frontier' = Rest
               /\ UNCHANGED <<heap, result>>
          ELSE LET kids == GuardedPushed(node) IN
               /\ result' = Marked(node)
               /\ heap' = heap \o kids
               /\ frontier' = Rest \o Fresh(Len(kids))
               /\ UNCHANGED <<ids_result, pc>>
    /\ UNCHANGED <<variant, entry, harness, first_kind, tree, goal, start_depth, limit, solution_node>>

\* The frontier is empty: `return result`.
DLSReturn ==
    /\ pc = "dls"
    /\ frontier = <<>>
    /\ ids_result' = result
    /\ pc' = "ret"
    /\ UNCHANGED popped
    /\ UNCHANGED <<variant, entry, harness, first_kind, tree, goal, start_depth, limit, heap, frontier,
                   result, solution_node, found_files>>

(* ------------------- iterative_deepening_search ------------------------ *)
\* Mutant of NextLimit: every other bound is skipped.
SkipLimit(l) == l + 2

\* Mutant of NextLimit: the bound does not grow.
SameLimit(l) == l

\* The next value of range(start, sys.maxsize).
NextLimit(l) == l + 1

\* Mutant of NotCutoff: the result is compared with the wrong sentinel.
NotFailure(r) == r # failure

\* `if result != cutoff: return result` (Node defines no __eq__: identity).
NotCutoff(r) == r # cutoff

\* The for loop of element_search.py and file_system_search.py after a pass.
IDSNext ==
    /\ pc = "ret"
    /\ entry = "ids"
    /\ variant \in {"element", "file"}
    /\ IF NotCutoff(ids_result)
       THEN /\ solution_node' = ids_result
            /\ pc' = "done"
            /\ UNCHANGED limit
       ELSE /\ limit' = NextLimit(limit)
            /\ pc' = "ids"
            /\ UNCHANGED solution_node
    /\ UNCHANGED popped
    /\ UNCHANGED <<variant, entry, harness, first_kind, tree, goal, start_depth, heap, frontier, result,
                   ids_result, found_files>>

\* The for loop of rights_search.py after a pass; the driver returns None.
RightsIDSNext ==
    /\ pc = "ret"
    /\ entry = "ids"
    /\ variant = "rights"
    /\ IF Full(found_files) \/ NotCutoff(ids_result)
       THEN /\ solution_node' = None
            /\ pc' = "done"
            /\ UNCHANGED limit
       ELSE /\ limit' = NextLimit(limit)
            /\ pc' = "ids"
            /\ UNCHANGED solution_node
    /\ UNCHANGED popped
    /\ UNCHANGED <<variant, entry, harness, first_kind, tree, goal, start_depth, heap, frontier, result,
                   ids_result, found_files>>

\* depth_limited_search was called directly: its value goes to the caller.
DirectReturn ==
    /\ pc = "ret"
    /\ entry = "dls"
    /\ solution_node' = ids_result
    /\ pc' = "done"
    /\ UNCHANGED popped
    /\ UNCHANGED <<variant, entry, harness, first_kind, tree, goal, start_depth, limit, heap, frontier,
                   result, ids_result, found_files>>

\* The kind of outcome a caller sees.
Kind(r) ==
    IF r = failure THEN "failure"
    ELSE IF r = cutoff THEN "cutoff"
    ELSE IF r = None THEN "none"
    ELSE "goal"

\* "pair": the driver of element_search.py has returned; the driver of
\* file_system_search.py is called on the same tree with the same goal.
SecondRun ==
    /\ pc = "done"
    /\ harness = "pair"
    /\ variant = "element"
    /\ first_kind' = Kind(solution_node)
    /\ variant' = "file"
    /\ limit' = start_depth
    /\ heap' = <<FailureNode, CutoffNode>>
    /\ frontier' = <<>>
    /\ result' = failure
    /\ ids_result' = None
    /\ solution_node' = None
    /\ popped' = <<>>
    /\ pc' = "ids"
    /\ UNCHANGED <<entry, harness, tree, goal, start_depth, found_files>>

Next ==
    \/ SecondRun
    \/ CallDLS
    \/ DLSElement
    \/ DLSFile
    \/ DLSRights
    \/ DLSReturn
    \/ IDSNext
    \/ RightsIDSNext
    \/ DirectReturn

Spec == Init /\ [][Next]_vars

\* The interpreter runs the program to its end: a step that can be taken is taken.
FairSpec == Spec /\ WF_vars(Next)

(* ---------------------- the tree, seen from outside -------------------- *)
TreeNodes == 1..tree.n

\* The node whose actions lead to s (0 for the root).
TreeParent(s) ==
    IF \E q \in TreeNodes : \E i \in DOMAIN actions(q) : Result(q, actions(q)[i]) = s
    THEN CHOOSE q \in TreeNodes : \E i \in DOMAIN actions(q) : Result(q, actions(q)[i]) = s
    ELSE 0

RECURSIVE TreeDepth(_)
TreeDepth(s) == IF TreeParent(s) = 0 THEN 0 ELSE 1 + TreeDepth(TreeParent(s))

RECURSIVE TreePath(_)
TreePath(s) == IF TreeParent(s) = 0 THEN <<s>> ELSE Append(TreePath(TreeParent(s)), s)

GoalStates == {s \in TreeNodes : is_goal(s)}

MinGoalDepth ==
    CHOOSE d \in 0..tree.n :
        /\ \E s \in GoalStates : TreeDepth(s) = d
        /\ \A s \in GoalStates : TreeDepth(s) >= d

\* The matches bounded enumeration is after: goals at depth >= 3.
Matches == {s \in GoalStates : TreeDepth(s) >= MinDepth}

IsNode(r) == r \in DOMAIN heap /\ r # failure /\ r # cutoff

SingleGoal == variant \in {"element", "file"}
DriverDone == pc = "done" /\ entry = "ids"
DirectDone == pc = "done" /\ entry = "dls"

\* The references from the root to node, by following parent and reversing.
RECURSIVE Chain(_)
Chain(node) ==
    IF heap[node].parent = None THEN <<node>>
    ELSE Append(Chain(heap[node].parent), node)

(* ------------------------------ claims --------------------------------- *)

\* C1: when the single-goal driver has returned, its value is a node whose
\* state carries the goal value if some node of the tree carries it, and the
\* failure sentinel otherwise.
C1_GoalIffPresent ==
    (DriverDone /\ SingleGoal) =>
        IF \E s \in TreeNodes : tree.val[s] = goal
        THEN IsNode(solution_node) /\ tree.val[heap[solution_node].state] = goal
        ELSE solution_node = failure

C1_Witness ==
    /\ DriverDone
    /\ variant = "file"
    /\ IsNode(solution_node)
    /\ len(solution_node) >= 2
    /\ tree.val[heap[solution_node].state] = goal

\* C2: in every pass, no child of a node whose depth is >= limit is ever
\* created and pushed: every node of the pass that has a parent has a parent
\* of depth < limit.
C2_NoExpansionAtLimit ==
    \A r \in DOMAIN heap :
        (IsNode(r) /\ heap[r].parent # None) => len(heap[r].parent) < limit

\* C3: a pass of the single-goal driver that returns a goal node has a bound
\* >= the depth of the shallowest goal of the tree.
C3_NoMatchBelowGoalDepth ==
    (pc = "ret" /\ entry = "ids" /\ SingleGoal /\ IsNode(ids_result)) =>
        limit >= MinGoalDepth

\* C4: depth_limited_search called directly returns the node wrapping the
\* initial state when that state is a goal, whatever the limit, and returns
\* cutoff when the limit is 0 and the initial state is no goal and has an action.
C4_LimitZero ==
    (DirectDone /\ SingleGoal) =>
        /\ is_goal(Initial) =>
              /\ IsNode(solution_node)
              /\ heap[solution_node].state = Initial
              /\ heap[solution_node].parent = None
        /\ (limit = 0 /\ ~is_goal(Initial) /\ actions(Initial) # <<>>) =>
              solution_node = cutoff

\* C5: when the enumeration driver, started with start_depth = 3 and an empty
\* accumulator, returns on a tree with m < K matches, the accumulator holds
\* exactly m entries.
C5_ExactlyM ==
    (DriverDone /\ variant = "rights" /\ start_depth = MinDepth
       /\ Cardinality(Matches) < K) =>
        Len(found_files) = Cardinality(Matches)

\* C6: the accumulator never holds more than K entries, and when the
\* enumeration driver returns on a tree with at least K matches it holds
\* exactly K.
C6_AtMostK ==
    variant = "rights" =>
        /\ Len(found_files) <= K
        /\ (DriverDone /\ Cardinality(Matches) >= K) => Len(found_files) = K

C6_Witness ==
    /\ variant = "rights"
    /\ DriverDone
    /\ Cardinality(Matches) >= K
    /\ Len(found_files) = K
    /\ limit > start_depth

\* C7: every entry of the accumulator is a goal whose depth is >= the
\* start_depth given to the enumeration driver.
C7_EntriesAtStartDepth ==
    (variant = "rights" /\ entry = "ids") =>
        \A i \in DOMAIN found_files :
            /\ is_goal(found_files[i])
            /\ TreeDepth(found_files[i]) >= start_depth

\* C8: the parent chain of the goal node the single-goal driver returns,
\* reversed, starts at the initial state, ends at the node, has depth(node)
\* actions, each of them an action of the state before it whose result is
\* the state after it; path_states gives the values of those states.
C8_PathReconstruction ==
    (DriverDone /\ variant = "file" /\ IsNode(solution_node)) =>
        LET n == solution_node
            chain == Chain(n)
        IN  /\ heap[chain[1]].state = Initial
            /\ heap[chain[1]].action = None
            /\ chain[Len(chain)] = n
            /\ Len(chain) = len(n) + 1
            /\ len(n) = TreeDepth(heap[n].state)
            /\ \A i \in 1..(Len(chain) - 1) :
                  LET s == heap[chain[i]].state
                      a == heap[chain[i + 1]].action
                  IN  /\ \E j \in DOMAIN actions(s) : actions(s)[j] = a
                      /\ Result(s, a) = heap[chain[i + 1]].state
            /\ path_states(n) =
                  [i \in 1..Len(chain) |-> tree.val[heap[chain[i]].state]]
            /\ path_states(n) =
                  [i \in 1..(len(n) + 1) |-> tree.val[TreePath(heap[n].state)[i]]]

C8_Witness ==
    /\ DriverDone
    /\ variant = "file"
    /\ IsNode(solution_node)
    /\ len(solution_node) = 3
    /\ Len(path_states(solution_node)) = 4

\* C9, as claimed: on every finite tree the called function returns, and
\* every pass has emptied its frontier when it returns.
C9_EveryPassEmptiesFrontier ==
    /\ <>(pc = "done")
    /\ [](pc = "ret" => frontier = <<>>)

\* C9, amended: on every finite tree the called function returns, every
\* pass that is started returns, and a pass that returns failure or cutoff
\* has emptied its frontier (a pass that returns a node, the goal or the
\* node of the K-th entry, returns at once and may leave nodes on it).
C9_Terminates ==
    /\ <>(pc = "done")
    /\ (pc = "dls") ~> (pc = "ret")
    /\ []((pc = "ret" /\ ~IsNode(ids_result)) => frontier = <<>>)

C9_Witness ==
    /\ DriverDone
    /\ limit >= 3
    /\ frontier = <<>>
    /\ IF variant = "rights" THEN found_files = <<>> ELSE solution_node = failure

\* C10: on the tree of main() of element_search.py the driver returns a node
\* whose value is 4 for goal 4 and the failure sentinel for goal 99.
C10_BinaryTreeScenario ==
    (DriverDone /\ variant = "element" /\ tree = UserTree) =>
        /\ goal = 4 =>
              IsNode(solution_node) /\ tree.val[heap[solution_node].state] = 4
        /\ goal = 99 => solution_node = failure

C10_Witness ==
    /\ DriverDone
    /\ variant = "element"
    /\ tree = UserTree
    /\ goal = 4
    /\ IsNode(solution_node)
    /\ tree.val[heap[solution_node].state] = 4

\* C11: on the tree of main() of file_system_search.py the driver called
\* with goal "file_d" returns a node whose path_states is
\* root, subdir_1, subdir_3, file_d.
C11_FileSystemScenario ==
    (DriverDone /\ harness = "single" /\ variant = "file"
       /\ tree = FileTree /\ goal = "file_d") =>
        /\ IsNode(solution_node)
        /\ path_states(solution_node) = <<"root", "subdir_1", "subdir_3", "file_d">>

C11_Witness ==
    /\ DriverDone
    /\ harness = "single"
    /\ variant = "file"
    /\ tree = FileTree
    /\ goal = "file_d"
    /\ IsNode(solution_node)
    /\ Len(path_states(solution_node)) = 4
    /\ limit = 3

\* The children of node r that exist, last action first.
HeapKidsRev(r) ==
    LET acts == actions(heap[r].state)
        n == Len(acts)
        kids == {c \in DOMAIN heap : IsNode(c) /\ heap[c].parent = r}
    IN  IF kids = {} THEN <<>>
        ELSE [i \in 1..n |-> CHOOSE c \in kids : heap[c].action = acts[n + 1 - i]]

\* Depth-first preorder of the nodes of the pass under r, children last
\* action first.
RECURSIVE PreRev(_), PreRevSeq(_)
PreRev(r) == <<r>> \o PreRevSeq(HeapKidsRev(r))
PreRevSeq(rs) == IF rs = <<>> THEN <<>> ELSE PreRev(Head(rs)) \o PreRevSeq(Tail(rs))

Reverse(q) == [i \in 1..Len(q) |-> q[Len(q) + 1 - i]]

RootActions == actions(Initial)

\* C12: the nodes a pass has popped, followed by the frontier from its top
\* down, are the depth-first preorder of the nodes of the pass with the
\* children of every node taken last action first; a goal node a
\* single-goal pass returns is the first goal popped; when the root is no
\* goal and all its children are, the child of the last action is returned.
C12_ReversedPreorder ==
    /\ Len(heap) >= 3 => PreRev(3) = popped \o Reverse(frontier)
    /\ (pc = "ret" /\ SingleGoal /\ IsNode(ids_result)) =>
          /\ ids_result = popped[Len(popped)]
          /\ \A i \in 1..(Len(popped) - 1) : ~is_goal(heap[popped[i]].state)
          /\ (/\ ~is_goal(Initial)
              /\ RootActions # <<>>
              /\ \A j \in DOMAIN RootActions : is_goal(RootActions[j])) =>
                 heap[ids_result].state = RootActions[Len(RootActions)]

C12_Witness ==
    /\ pc = "ret"
    /\ variant = "file"
    /\ IsNode(ids_result)
    /\ ~is_goal(Initial)
    /\ Len(RootActions) >= 2
    /\ \A j \in DOMAIN RootActions : is_goal(RootActions[j])
    /\ heap[ids_result].state = RootActions[Len(RootActions)]
    /\ Len(frontier) >= 1

\* C13: a single-goal pass that ends with an empty frontier returns cutoff
\* if some node it popped had depth >= limit, and failure otherwise.
C13_CutoffIffPruned ==
    (pc = "ret" /\ SingleGoal /\ ~IsNode(ids_result)) =>
        /\ frontier = <<>>
        /\ IF \E i \in DOMAIN popped : len(popped[i]) >= limit
           THEN ids_result = cutoff
           ELSE ids_result = failure

C13_Witness ==
    /\ pc = "ret"
    /\ variant = "file"
    /\ ids_result = cutoff
    /\ Len(popped) >= 3
    /\ \E i \in DOMAIN popped : len(popped[i]) >= limit
    /\ \E i \in DOMAIN popped : len(popped[i]) < limit

\* C14: a single-goal pass that returns failure has popped every node of
\* the tree, each once, and none of them is a goal.
C14_FailureMeansExhausted ==
    (pc = "ret" /\ SingleGoal /\ ids_result = failure) =>
        /\ {heap[popped[i]].state : i \in DOMAIN popped} = TreeNodes
        /\ Len(popped) = tree.n
        /\ \A s \in TreeNodes : tree.val[s] # goal

C14_Witness ==
    /\ pc = "ret"
    /\ variant = "file"
    /\ ids_result = failure
    /\ tree.n >= 3
    /\ limit >= 3
    /\ Len(popped) = tree.n

\* C15: the enumeration driver starts its first pass with the bound
\* start_depth; a pass starts with the bound the driver holds; the bound
\* changes only between a returned pass and the next and grows by one; after
\* a pass the driver returns when the accumulator holds K entries or the
\* pass returned anything but cutoff, and otherwise goes on to the next bound.
C15_PassSchedule ==
    /\ (variant = "rights" /\ entry = "ids") => (limit = start_depth /\ pc = "ids")
    /\ [][(variant = "rights" /\ entry = "ids") =>
            /\ pc = "ids" => (pc' = "dls" /\ limit' = limit)
            /\ pc = "dls" => (pc' \in {"dls", "ret"} /\ limit' = limit)
            /\ pc' = "ids" => (pc = "ret" /\ frontier = <<>> /\ limit' = limit + 1)
            /\ (pc = "ret" /\ (Len(found_files) >= K \/ ids_result # cutoff)) =>
                  (pc' = "done" /\ limit' = limit)
            /\ (pc = "ret" /\ Len(found_files) < K /\ ids_result = cutoff) =>
                  (pc' = "ids" /\ limit' = limit + 1)
         ]_vars

C15_Witness ==
    /\ variant = "rights"
    /\ DriverDone
    /\ limit >= start_depth + 2
    /\ Len(found_files) < K
    /\ ids_result = failure

\* C16: the goal node the single-goal driver returns has the least depth
\* of all goal nodes of the tree.
C16_ShallowestGoal ==
    (DriverDone /\ SingleGoal /\ IsNode(solution_node)) =>
        len(solution_node) = MinGoalDepth

\* C17: in a run of the enumeration driver the accumulator never holds
\* the same path twice.
C17_NoDuplicates ==
    (variant = "rights" /\ entry = "ids") =>
        \A i, j \in DOMAIN found_files :
            i # j => found_files[i] # found_files[j]

\* C18: on the same tree and goal the driver of element_search.py and the
\* driver of file_system_search.py both return a goal node or both return
\* failure.
C18_DriversAgree ==
    (pc = "done" /\ harness = "pair" /\ variant = "file") =>
        /\ first_kind \in {"goal", "failure"}
        /\ Kind(solution_node) = first_kind

C18_Witness ==
    /\ pc = "done"
    /\ harness = "pair"
    /\ variant = "file"
    /\ first_kind = "goal"
    /\ Kind(solution_node) = "goal"
    /\ limit >= 2

\* C19: in file_system_search.py and rights_search.py every node on the
\* frontier has depth <= limit, and the path_cost of every node is its depth.
C19_FrontierWithinLimit ==
    variant \in {"file", "rights"} =>
        /\ \A i \in DOMAIN frontier : len(frontier[i]) <= limit
        /\ \A r \in DOMAIN heap :
              IsNode(r) =>
                 /\ heap[r].path_cost = len(r)
                 /\ heap[r].path_cost = TreeDepth(heap[r].state)

C19_Witness ==
    /\ variant = "file"
    /\ pc = "dls"
    /\ limit >= 2
    /\ Len(frontier) >= 2
    /\ \E i \in DOMAIN frontier :
          len(frontier[i]) = limit /\ heap[frontier[i]].path_cost = limit

====
